---------------------------- MODULE Spec2Model ----------------------------
(***************************************************************************)
(* Model of gen.Generate (src/gen/gen.go): the enum code generator that    *)
(* parses a Go file, looks for type declarations whose doc comment holds   *)
(* "@enumGenerated", collects the value names declared with that type,     *)
(* synthesizes Values() and String() methods, merges them into the         *)
(* declaration list and prints the file back.                              *)
(*                                                                         *)
(* A file is a sequence of top-level declarations.  A declaration is a     *)
(* record                                                                  *)
(*   pos   : token.Pos of the node; parsed nodes carry their position in   *)
(*           the file (1..n), nodes built by the generator carry NoPos,    *)
(*           and the text on disk carries none                             *)
(*   kind  : "GenDecl" (type/const/var group) or "FuncDecl"                *)
(*   tok   : "type", "const", "var" or "func"                              *)
(*   doc   : GenDecl.Doc.List, one comment per line, a comment being the   *)
(*           sequence of the words of its text; <<>> is Doc == nil         *)
(*   specs : GenDecl.Specs, each a TypeSpec or a ValueSpec                 *)
(*   recv  : FuncDecl.Recv.List[0].Type when it is an *ast.Ident, else ""  *)
(*   name  : FuncDecl.Name.Name                                            *)
(*   result: the result type of the function                               *)
(*   body  : FuncDecl.Body: its local declaration statements, the kind of  *)
(*           expression it returns and the elements of a returned literal  *)
(***************************************************************************)
EXTENDS Naturals, Sequences, FiniteSets

VARIABLES
    disk,      \* the file at `filename`: [valid, decls]
    pc,        \* position of Generate: Idle, Scan, Merged, Created, Done, Failed
               \* (Call, Returned when replaceMethod is taken on its own)
    file,      \* file.Decls of the parsed *ast.File
    newDecls,  \* the local newDecls of Generate
    i,         \* number of completed iterations of `range file.Decls`
    input,     \* file.Decls as returned by the parser in this invocation
    orig,      \* the content of the file when this invocation started
    calls,     \* one record per execution of lines 38-66 in this invocation
    failedAt,  \* the stage that failed: "", "parse", "create" or "write"
    run        \* number of the current invocation of Generate

vars == <<disk, pc, file, newDecls, i, input, orig, calls, failedAt, run>>

\* Largest number of top-level declarations of an input file.
MaxDecls == 3
\* Number of consecutive invocations of Generate on the same file.
MaxRuns == 2

NoPos == 0

Types == {"A", "B"}
Methods == {"Values", "String"}

-----------------------------------------------------------------------------
(* Syntax tree nodes *)

TypeSpec(n) == [kind |-> "TypeSpec", names |-> <<n>>, type |-> ""]
ValueSpec(ns, t) == [kind |-> "ValueSpec", names |-> ns, type |-> t]
LocalDecl(tok, specs) == [tok |-> tok, specs |-> specs]
NoBody == [stmts |-> <<>>, ret |-> "", elts |-> <<>>]
UserBody(stmts) == [stmts |-> stmts, ret |-> "user", elts |-> <<>>]

GenDecl(tok, doc, specs) ==
    [pos |-> NoPos, kind |-> "GenDecl", tok |-> tok, doc |-> doc, specs |-> specs,
     recv |-> "", name |-> "", result |-> <<>>, body |-> NoBody]

FuncDecl(recv, name, result, body) ==
    [pos |-> NoPos, kind |-> "FuncDecl", tok |-> "func", doc |-> <<>>, specs |-> <<>>,
     recv |-> recv, name |-> name, result |-> result, body |-> body]

-----------------------------------------------------------------------------
(* generateValuesMethodAST, generateStringMethodAST *)

generateValuesMethodAST(enumType, values) ==
    FuncDecl(enumType, "Values", <<"[]", enumType>>,
             [stmts |-> <<>>, ret |-> "CompositeLit", elts |-> values])

generateStringMethodAST(enumType) ==
    FuncDecl(enumType, "String", <<"string">>,
             [stmts |-> <<>>, ret |-> "Sprintf", elts |-> <<>>])

-----------------------------------------------------------------------------
(* collectEnumValues: ast.Inspect visits the declarations in order, the    *)
(* specs of a GenDecl in order, and the statements of a function body in   *)
(* order; every *ast.ValueSpec met contributes its names when its Type is  *)
(* the identifier enumType.                                                *)

SpecValues(spec, enumType) ==
    IF spec.kind # "ValueSpec" \/ Len(spec.names) = 0
    THEN <<>>
    ELSE IF spec.type = enumType THEN spec.names ELSE <<>>

RECURSIVE InspectSpecs(_, _)
InspectSpecs(specs, enumType) ==
    IF specs = <<>> THEN <<>>
    ELSE SpecValues(Head(specs), enumType) \o InspectSpecs(Tail(specs), enumType)

RECURSIVE InspectStmts(_, _)
InspectStmts(stmts, enumType) ==
    IF stmts = <<>> THEN <<>>
    ELSE InspectSpecs(Head(stmts).specs, enumType) \o InspectStmts(Tail(stmts), enumType)

\* Variant: only the specs of top-level declaration groups are visited.
InspectDecl_topLevelOnly(decl, enumType) ==
    IF decl.kind = "GenDecl"
    THEN InspectSpecs(decl.specs, enumType)
    ELSE <<>>

InspectDecl(decl, enumType) ==
    IF decl.kind = "GenDecl"
    THEN InspectSpecs(decl.specs, enumType)
    ELSE InspectStmts(decl.body.stmts, enumType)

RECURSIVE collectEnumValues(_, _)
collectEnumValues(decls, enumType) ==
    IF decls = <<>> THEN <<>>
    ELSE InspectDecl(Head(decls), enumType) \o collectEnumValues(Tail(decls), enumType)

-----------------------------------------------------------------------------
(* checkExistingMethods, replaceMethod *)

IsMethod(decl, enumType, methodName) ==
    /\ decl.kind = "FuncDecl"
    /\ decl.recv # ""
    /\ decl.recv = enumType
    /\ decl.name = methodName

checkExistingMethods(decls, enumType) ==
    [m \in Methods |-> \E k \in 1..Len(decls) : IsMethod(decls[k], enumType, m)]

replaceMethod(decls, enumType, methodName, newMethod) ==
    LET hits == {k \in 1..Len(decls) : IsMethod(decls[k], enumType, methodName)}
    IN  IF hits = {} THEN decls
        ELSE LET first == CHOOSE k \in hits : \A h \in hits : k <= h
             IN  [decls EXCEPT ![first] = newMethod]

-----------------------------------------------------------------------------
(* Generate, lines 33-70: the body of the loop over file.Decls for one     *)
(* GenDecl with a doc comment.  st = [file, newDecls, calls].              *)

Marker == "@enumGenerated"

\* Variant: any doc comment line counts as the marker.
ContainsMarker_anyComment(comment) == Len(comment) > 0

\* strings.Contains(comment.Text, "@enumGenerated")
ContainsMarker(comment) == \E k \in 1..Len(comment) : comment[k] = Marker

\* Variant: a new method is put in front of the list built so far.
MergeMethod_prepend(st, has, enumType, methodName, method) ==
    IF has
    THEN [st EXCEPT !.file = replaceMethod(st.file, enumType, methodName, method)]
    ELSE [st EXCEPT !.newDecls = <<method>> \o st.newDecls]

\* lines 52-66: replace in file.Decls, or append to newDecls
MergeMethod(st, has, enumType, methodName, method) ==
    IF has
    THEN [st EXCEPT !.file = replaceMethod(st.file, enumType, methodName, method)]
    ELSE [st EXCEPT !.newDecls = Append(st.newDecls, method)]

\* lines 38-66, for one TypeSpec of a marked GenDecl
ProcessType(st, enumType) ==
    LET values == collectEnumValues(st.file, enumType)
        has == checkExistingMethods(st.file, enumType)
        valuesMethod == generateValuesMethodAST(enumType, values)
        stringMethod == generateStringMethodAST(enumType)
        st1 == MergeMethod(st, has["Values"], enumType, "Values", valuesMethod)
        st2 == MergeMethod(st1, has["String"], enumType, "String", stringMethod)
    IN  [st2 EXCEPT !.calls = Append(st.calls,
            [enumType |-> enumType, tree |-> st.file, values |-> values,
             has |-> has, valuesMethod |-> valuesMethod])]

\* lines 35-68: for _, spec := range genDecl.Specs
RECURSIVE ProcessSpecs(_, _)
ProcessSpecs(st, specs) ==
    IF specs = <<>> THEN st
    ELSE LET spec == Head(specs)
             st1 == IF spec.kind = "TypeSpec" THEN ProcessType(st, spec.names[1]) ELSE st
         IN  ProcessSpecs(st1, Tail(specs))

\* lines 33-70: for _, comment := range genDecl.Doc.List
RECURSIVE ProcessComments(_, _, _)
ProcessComments(st, comments, specs) ==
    IF comments = <<>> THEN st
    ELSE LET st1 == IF ContainsMarker(Head(comments)) THEN ProcessSpecs(st, specs) ELSE st
         IN  ProcessComments(st1, Tail(comments), specs)

\* lines 26-71: one iteration of `for _, decl := range file.Decls`
LoopBody(st, decl) ==
    LET st1 == [st EXCEPT !.newDecls = Append(st.newDecls, decl)]
    IN  IF decl.kind # "GenDecl" \/ decl.doc = <<>>
        THEN st1
        ELSE ProcessComments(st1, decl.doc, decl.specs)

-----------------------------------------------------------------------------
(* parser.ParseFile and printer.Fprint.  The text of a file holds no node  *)
(* positions: the parser gives the k-th declaration position k, and the    *)
(* printer writes the declarations in list order without positions.        *)

ParseFile(text) == [k \in 1..Len(text) |-> [text[k] EXCEPT !.pos = k]]

Fprint(decls) == [k \in 1..Len(decls) |-> [decls[k] EXCEPT !.pos = NoPos]]

Truncated == [valid |-> FALSE, decls |-> <<>>]

-----------------------------------------------------------------------------
(* Input files *)

Doc(marked) == IF marked THEN <<"//", Marker>> ELSE <<"//", "doc">>

Palette ==
    { GenDecl("type", <<Doc(TRUE)>>, <<TypeSpec("A")>>),
      GenDecl("type", <<Doc(TRUE), Doc(TRUE)>>, <<TypeSpec("A")>>),
      GenDecl("type", <<>>, <<TypeSpec("A")>>),
      GenDecl("type", <<Doc(FALSE)>>, <<TypeSpec("B")>>),
      GenDecl("type", <<Doc(FALSE), Doc(TRUE)>>, <<TypeSpec("B")>>),
      GenDecl("type", <<Doc(TRUE)>>, <<TypeSpec("A"), TypeSpec("B")>>),
      GenDecl("const", <<>>, <<ValueSpec(<<"a", "b">>, "A"), ValueSpec(<<"c">>, "")>>),
      GenDecl("const", <<Doc(TRUE)>>, <<ValueSpec(<<"c">>, "B")>>),
      GenDecl("var", <<>>, <<ValueSpec(<<"x">>, "A")>>),
      FuncDecl("A", "Values", <<"int">>,
               UserBody(<<LocalDecl("var", <<ValueSpec(<<"y">>, "A")>>)>>)),
      FuncDecl("A", "String", <<"string">>,
               [stmts |-> <<>>, ret |-> "Sprintf", elts |-> <<>>]),
      FuncDecl("B", "Values", <<"[]", "B">>,
               UserBody(<<LocalDecl("const", <<ValueSpec(<<"z">>, "A")>>)>>)),
      FuncDecl("", "TestEnum", <<>>, UserBody(<<>>)) }

TypeNames(decl) ==
    IF decl.tok = "type" THEN {decl.specs[k].names[1] : k \in 1..Len(decl.specs)} ELSE {}

\* A Go package declares a type name once and a method once per receiver type.
WellFormed(decls) ==
    /\ \A j, k \in 1..Len(decls) : j # k => TypeNames(decls[j]) \cap TypeNames(decls[k]) = {}
    /\ \A j, k \in 1..Len(decls) :
          (j # k /\ decls[j].kind = "FuncDecl" /\ decls[k].kind = "FuncDecl" /\ decls[j].recv # "")
              => ~(decls[j].recv = decls[k].recv /\ decls[j].name = decls[k].name)

-----------------------------------------------------------------------------
(* The state machine of Generate *)

Init ==
    /\ \E n \in 0..MaxDecls : \E text \in [1..n -> Palette] :
          /\ WellFormed(text)
          /\ \E valid \in BOOLEAN : disk = [valid |-> valid, decls |-> text]
    /\ pc = "Idle"
    /\ file = <<>>
    /\ newDecls = <<>>
    /\ i = 0
    /\ input = <<>>
    /\ orig = disk
    /\ calls = <<>>
    /\ failedAt = ""
    /\ run = 1

\* lines 15-23: the file parses
ParseOK ==
    /\ pc = "Idle"
    /\ disk.valid
    /\ file' = ParseFile(disk.decls)
    /\ input' = ParseFile(disk.decls)
    /\ newDecls' = <<>>
    /\ i' = 0
    /\ pc' = "Scan"
    /\ UNCHANGED <<disk, orig, calls, failedAt, run>>

\* Variant: the parse error is reported but the run goes on to rewrite the file.
ParseFail_noReturn ==
    /\ pc = "Idle"
    /\ ~disk.valid
    /\ pc' = "Merged"
    /\ failedAt' = "parse"
    /\ UNCHANGED <<disk, file, newDecls, i, input, orig, calls, run>>

\* lines 17-20: parser.ParseFile returns an error
ParseFail ==
    /\ pc = "Idle"
    /\ ~disk.valid
    /\ pc' = "Failed"
    /\ failedAt' = "parse"
    /\ UNCHANGED <<disk, file, newDecls, i, input, orig, calls, run>>

\* lines 26-71: one iteration of the loop; decl is read from file.Decls now
ScanDecl ==
    /\ pc = "Scan"
    /\ i < Len(file)
    /\ LET st == LoopBody([file |-> file, newDecls |-> newDecls, calls |-> calls], file[i + 1])
       IN  /\ file' = st.file
           /\ newDecls' = st.newDecls
           /\ calls' = st.calls
    /\ i' = i + 1
    /\ UNCHANGED <<disk, pc, input, orig, failedAt, run>>

\* line 74: file.Decls = newDecls
AssignDecls ==
    /\ pc = "Scan"
    /\ i = Len(file)
    /\ file' = newDecls
    /\ pc' = "Merged"
    /\ UNCHANGED <<disk, newDecls, i, input, orig, calls, failedAt, run>>

\* line 77: os.Create truncates the file
CreateOK ==
    /\ pc = "Merged"
    /\ disk' = Truncated
    /\ pc' = "Created"
    /\ UNCHANGED <<file, newDecls, i, input, orig, calls, failedAt, run>>

\* lines 78-81: os.Create returns an error
CreateFail ==
    /\ pc = "Merged"
    /\ pc' = "Failed"
    /\ failedAt' = "create"
    /\ UNCHANGED <<disk, file, newDecls, i, input, orig, calls, run>>

\* lines 84-89: printer.Fprint writes the whole tree
FprintOK ==
    /\ pc = "Created"
    /\ disk' = [valid |-> TRUE, decls |-> Fprint(file)]
    /\ pc' = "Done"
    /\ UNCHANGED <<file, newDecls, i, input, orig, calls, failedAt, run>>

\* lines 84-87: printer.Fprint returns an error after writing part of the text
FprintFail ==
    /\ pc = "Created"
    /\ \E n \in 0..Len(file) :
          disk' = [valid |-> FALSE, decls |-> SubSeq(Fprint(file), 1, n)]
    /\ pc' = "Failed"
    /\ failedAt' = "write"
    /\ UNCHANGED <<file, newDecls, i, input, orig, calls, run>>

\* Generate is called again on the file it has written
Rerun ==
    /\ pc = "Done"
    /\ run < MaxRuns
    /\ run' = run + 1
    /\ pc' = "Idle"
    /\ orig' = disk
    /\ file' = <<>>
    /\ newDecls' = <<>>
    /\ input' = <<>>
    /\ calls' = <<>>
    /\ i' = 0
    /\ UNCHANGED <<disk, failedAt>>

Next ==
    \/ ParseOK
    \/ ParseFail
    \/ ScanDecl
    \/ AssignDecls
    \/ CreateOK
    \/ CreateFail
    \/ FprintOK
    \/ FprintFail
    \/ Rerun

Spec == Init /\ [][Next]_vars

-----------------------------------------------------------------------------
(* replaceMethod on its own: any declaration list, receiver type and       *)
(* method name.  The function has no result and no error path; the caller  *)
(* continues with the statement after the call.                            *)

InitReplace ==
    /\ \E n \in 0..MaxDecls : \E text \in [1..n -> Palette] :
          /\ WellFormed(text)
          /\ disk = [valid |-> TRUE, decls |-> text]
    /\ pc = "Call"
    /\ file = ParseFile(disk.decls)
    /\ input = file
    /\ newDecls = <<>>
    /\ i = 0
    /\ orig = disk
    /\ calls = <<>>
    /\ failedAt = ""
    /\ run = 1

ReplaceCall ==
    /\ pc = "Call"
    /\ \E enumType \in Types, methodName \in Methods :
          /\ file' = replaceMethod(file, enumType, methodName,
                        IF methodName = "Values"
                        THEN generateValuesMethodAST(enumType, collectEnumValues(file, enumType))
                        ELSE generateStringMethodAST(enumType))
          /\ calls' = <<[enumType |-> enumType, methodName |-> methodName]>>
    /\ pc' = "Returned"
    /\ UNCHANGED <<disk, newDecls, i, input, orig, failedAt, run>>

NextReplace == ReplaceCall

SpecReplace == InitReplace /\ [][NextReplace]_vars

-----------------------------------------------------------------------------
(* Vocabulary of the properties *)

Range(s) == {s[k] : k \in 1..Len(s)}

Indices(s) == 1..Len(s)

\* The doc comment of a declaration holds the marker word on some line.
DocIsMarked(decl) ==
    \E c \in Range(decl.doc) : Marker \in Range(c)

\* Type names declared by a marked / by an unmarked type declaration.
MarkedTypes(decls) ==
    {T \in Types : \E d \in Range(decls) :
        d.tok = "type" /\ DocIsMarked(d) /\ \E sp \in Range(d.specs) : sp.names = <<T>>}

UnmarkedTypes(decls) ==
    {T \in Types : \E d \in Range(decls) :
        d.tok = "type" /\ ~DocIsMarked(d) /\ \E sp \in Range(d.specs) : sp.names = <<T>>}

\* Index of the declaration group that declares type T.
TypeIndex(decls, T) ==
    CHOOSE k \in Indices(decls) :
        decls[k].tok = "type" /\ \E sp \in Range(decls[k].specs) : sp.names = <<T>>

\* Positions of the methods named M with receiver type T.
MethodAt(decls, T, M) ==
    {k \in Indices(decls) :
        decls[k].tok = "func" /\ decls[k].recv = T /\ decls[k].name = M}

\* Positions of all methods with receiver type T.
MethodsOn(decls, T) ==
    {k \in Indices(decls) : decls[k].tok = "func" /\ decls[k].recv = T}

\* The declared names of a file in pre-order, each with its declared type
\* and the keyword of its declaration.
SpecEntries(tok, spec) ==
    IF spec.kind = "ValueSpec"
    THEN [k \in Indices(spec.names) |-> [name |-> spec.names[k], type |-> spec.type, tok |-> tok]]
    ELSE <<>>

RECURSIVE Flatten(_)
Flatten(ss) == IF Len(ss) = 0 THEN <<>> ELSE Flatten(SubSeq(ss, 1, Len(ss) - 1)) \o ss[Len(ss)]

DeclEntries(decl) ==
    IF decl.tok = "func"
    THEN Flatten([k \in Indices(decl.body.stmts) |->
            Flatten([j \in Indices(decl.body.stmts[k].specs) |->
                SpecEntries(decl.body.stmts[k].tok, decl.body.stmts[k].specs[j])])])
    ELSE Flatten([j \in Indices(decl.specs) |-> SpecEntries(decl.tok, decl.specs[j])])

Entries(decls) == Flatten([k \in Indices(decls) |-> DeclEntries(decls[k])])

NamesOfType(decls, T) ==
    LET es == SelectSeq(Entries(decls), LAMBDA e : e.type = T)
    IN  [k \in Indices(es) |-> es[k].name]

ConstNamesOfType(decls, T) ==
    {e.name : e \in {x \in Range(Entries(decls)) : x.type = T /\ x.tok = "const"}}

\* A node built by the generator for type T.
Synthesized(d, T, M) ==
    /\ d.pos = NoPos
    /\ \/ M = "String" /\ d = generateStringMethodAST(T)
       \/ M = "Values" /\ \E c \in Range(calls) : c.enumType = T /\ d = c.valuesMethod

\* A declaration of the output that was not in the input: a node built by
\* the generator for a method the input did not have.
Inserted(d) == d.pos = NoPos /\ MethodAt(input, d.recv, d.name) = {}

\* The output without the inserted declarations: the input's declarations,
\* each either kept or replaced where it was.
Slots(decls) == SelectSeq(decls, LAMBDA d : ~Inserted(d))

\* Number of declarations of the input that precede position p of the output.
SlotsBefore(decls, p) == Len(Slots(SubSeq(decls, 1, p - 1)))

Finished == pc = "Done"

-----------------------------------------------------------------------------
(* Properties *)

\* C1: after a successful run every marked type has exactly one Values and
\* exactly one String method in the final declaration list, whatever the
\* shape of the marked documentation and wherever a pre-existing method is.
C1_ExactlyOneOfEach ==
    Finished =>
        \A T \in MarkedTypes(input), M \in Methods :
            Cardinality(MethodAt(disk.decls, T, M)) = 1

\* C2: a method M that a marked type T already has is, after the run, the
\* only M on T, sits where the original sat among the pre-existing
\* declarations, and is the synthesized one, whether the original was
\* before or after the type declaration.
C2_ReplacedInPlace ==
    Finished =>
        \A T \in MarkedTypes(input), M \in Methods : \A k \in MethodAt(input, T, M) :
            /\ Cardinality(MethodAt(file, T, M)) = 1
            /\ Len(Slots(file)) = Len(input)
            /\ Slots(file)[k].recv = T
            /\ Slots(file)[k].name = M
            /\ Synthesized(Slots(file)[k], T, M)

\* C3: a second run of Generate on the output of the first leaves the file
\* as the first run wrote it.
C3_Idempotent ==
    (run >= 2 /\ Finished) => disk = orig

C5_Unrelated ==
    {k \in Indices(input) :
        ~\E T \in MarkedTypes(input), M \in Methods : k \in MethodAt(input, T, M)}

C5_NonInterference ==
    Finished =>
        /\ \A k \in C5_Unrelated :
              Cardinality({p \in Indices(file) : file[p] = input[k]}) = 1
        /\ \A p, q \in Indices(file) :
              (p < q /\ file[p].pos \in C5_Unrelated /\ file[q].pos \in C5_Unrelated)
                  => file[p].pos < file[q].pos
        /\ \A p \in Indices(file) :
              \/ file[p].pos \in C5_Unrelated
              \/ \E T \in MarkedTypes(input), M \in Methods : Synthesized(file[p], T, M)

\* C6: the value set of T holds exactly the declared names of the constant
\* declarations whose declared type is T; variables do not contribute.
C6_ConstantsOnly ==
    \A c \in Range(calls) : Range(c.values) = ConstNamesOfType(c.tree, c.enumType)

\* C7: when parsing fails the run stops at once: the file is neither
\* truncated nor rewritten, no per-type step runs and the run never
\* reaches the success state.
C7_ParseErrorAborts ==
    /\ failedAt = "parse" => ~orig.valid
    /\ ~orig.valid =>
          /\ pc \in {"Idle", "Failed"}
          /\ disk = orig
          /\ calls = <<>>
          /\ newDecls = <<>>
          /\ i = 0

C7_Witness ==
    /\ pc = "Failed"
    /\ failedAt = "parse"
    /\ MarkedTypes(orig.decls) # {}

\* C8: a type whose declaration has no doc or a doc without the marker gets
\* no generated method: the methods on it after the run are the nodes that
\* were there before, even when values of the type exist and other types
\* of the file are marked.
C8_UnmarkedUntouched ==
    Finished =>
        \A T \in UnmarkedTypes(input) :
            /\ \A p \in MethodsOn(file, T) :
                  file[p].pos # NoPos /\ file[p] = input[file[p].pos]
            /\ Cardinality(MethodsOn(file, T)) = Cardinality(MethodsOn(input, T))
            /\ \A c \in Range(calls) : c.enumType # T

C8_Witness ==
    /\ Finished
    /\ \E T \in UnmarkedTypes(input) :
          /\ NamesOfType(input, T) # <<>>
          /\ MarkedTypes(input) \ {T} # {}
          /\ Len(file) > Len(input)

\* C9 (as stated): a synthesized method of a type that had none comes after
\* every declaration of the input.
C9_AppendedAtEnd ==
    Finished =>
        \A T \in MarkedTypes(input), M \in Methods :
            MethodAt(input, T, M) = {} =>
                \A p \in MethodAt(file, T, M) : SlotsBefore(file, p) = Len(input)

\* C9 (amended): a synthesized method of a type that had none is appended
\* to the list built so far: it comes after every input declaration up to
\* and including the group declaring T and before every input declaration
\* located after that group.
C9_AppendedAfterTypeDecl ==
    Finished =>
        \A T \in MarkedTypes(input), M \in Methods :
            MethodAt(input, T, M) = {} =>
                /\ MethodAt(file, T, M) # {}
                /\ \A p \in MethodAt(file, T, M) :
                      /\ Synthesized(file[p], T, M)
                      /\ SlotsBefore(file, p) = TypeIndex(input, T)
                      /\ \A q \in Indices(file) :
                            file[q].pos # NoPos =>
                                IF file[q].pos <= TypeIndex(input, T) THEN q < p ELSE q > p

C9_Witness ==
    /\ Finished
    /\ \E T \in MarkedTypes(input) :
          /\ MethodAt(input, T, "Values") = {}
          /\ TypeIndex(input, T) > 1
          /\ TypeIndex(input, T) < Len(input)

=============================================================================
